---- MODULE Spec2Model ----
(***************************************************************************)
(* The tool-calling conversation driver, ApiClient.process_with_tools      *)
(* (src/api_client.py), as a state machine.  One run of the driver is one  *)
(* behaviour: the completion endpoint and the registered tool are the      *)
(* environment, and every outcome they can produce is a nondeterministic   *)
(* choice of the action that calls them.                                   *)
(*                                                                         *)
(* Python values are encoded uniformly so that any two of them compare:    *)
(*   Optional[T]   a sequence of length 0 (None / key absent) or 1         *)
(*   dict (JSON)   a record [choices, error, response_body] of Optionals   *)
(*   message       a record [role, content, tool_call_id, tool_calls]      *)
(***************************************************************************)
EXTENDS Naturals, Sequences, FiniteSets, TLC

\* ------------------------------------------------------------------ bounds
\* Requests posted to the completion endpoint in one run (the source loop
\* has no bound of its own).
MaxRequests == 3
\* Tool calls the model emits in one run, over all of its messages.
MaxToolCalls == 2

\* The most lines a message content has.
MaxLines == 3
\* The most elements a fetched page has.
MaxElements == 2

\* --------------------------------------------------------- Python values
None == <<>>
Some(v) == <<v>>

\* str(x) of an Optional[str], as an f-string renders it.
Str(o) == IF o = None THEN "None" ELSE o[1]

\* Truth value of an Optional[str]: None and "" are both falsy.
Truthy(o) == o # None /\ o[1] # ""

SeqsUpTo(S, n) == UNION {[1..k -> S] : k \in 0..n}

\* ------------------------------------------------------------- messages
\* tool_calls of a message: the key is absent, or its value is null, or a list.
NoToolCalls == [key |-> "absent", list |-> <<>>]
NullToolCalls == [key |-> "null", list |-> <<>>]
ToolCallList(calls) == [key |-> "list", list |-> calls]

Msg(role, content, tool_call_id, tool_calls) ==
    [role |-> role, content |-> content, tool_call_id |-> tool_call_id,
     tool_calls |-> tool_calls]

\* --------------------------------------------------------------- inputs
\* The handlers main() registers, with the keyword parameters each one takes.
tool_handlers == [fetch_url_content |-> {"url"}]

ArgsUrl == "{\"url\": \"http://a\"}"
ArgsEmpty == "{}"
ArgsExtra == "{\"url\": \"http://a\", \"timeout\": 5}"
ArgsTruncated == "{\"url\": "

\* The tool calls a model may emit: a registered tool with arguments that
\* decode and bind, that decode but fail to bind, or that do not decode; and a
\* tool nobody registered.
ToolCall(id, name, arguments) ==
    [id |-> id, function |-> [name |-> name, arguments |-> arguments]]

ToolCalls ==
    { ToolCall("call_1", "fetch_url_content", ArgsUrl),
      ToolCall("call_2", "fetch_url_content", ArgsUrl),
      ToolCall("call_2", "fetch_url_content", ArgsTruncated),
      ToolCall("call_1", "fetch_url_content", ArgsEmpty),
      ToolCall("call_2", "fetch_url_content", ArgsExtra),
      ToolCall("call_2", "get_stock_price", ArgsUrl) }

\* The values of "tool_calls" a message may carry, with at most n calls.
ToolCallsValues(n) ==
    {NoToolCalls, NullToolCalls}
        \cup {ToolCallList(calls) : calls \in SeqsUpTo(ToolCalls, n)}

ResponseMessages(n) ==
    {Msg("assistant", Some("Revenue: $1B"), None, tc) : tc \in ToolCallsValues(n)}

\* A JSON object: the keys the program reads, each absent (None) or present.
Dict(choices, error, response_body) ==
    [choices |-> choices, error |-> error, response_body |-> response_body]

EmptyDict == Dict(None, None, None)

\* Bodies with two choices: the first without tool calls and the second with
\* one, and (when the model may still emit a call) the other way round. The
\* messages and the call of a second choice occur in no first choice.
TwoChoiceBodies(n) ==
    LET plain == Msg("assistant", Some("Revenue: $1B"), None, NoToolCalls)
        calling == Msg("assistant", Some("Revenue: $1B"), None,
                       ToolCallList(<<ToolCall("call_1", "fetch_url_content", ArgsUrl)>>))
        other_plain == Msg("assistant", Some("Net income: $2B"), None, NoToolCalls)
        other_calling == Msg("assistant", Some("Net income: $2B"), None,
                             ToolCallList(<<ToolCall("call_9", "fetch_url_content",
                                                     ArgsUrl)>>))
    IN  {Dict(Some(<<[message |-> plain], [message |-> other_calling]>>), None, None)}
            \cup (IF n >= 1
                  THEN {Dict(Some(<<[message |-> calling], [message |-> other_plain]>>),
                             None, None)}
                  ELSE {})

\* Decoded bodies of a 2xx completion response.
ResponseBodies(n) ==
    {Dict(Some(<<[message |-> m]>>), None, None) : m \in ResponseMessages(n)}
        \cup TwoChoiceBodies(n)
        \cup {Dict(Some(<<>>), None, None),
              Dict(None, Some("model overloaded"), None)}

\* An HTTP response object: response.json() returns json when valid_json and
\* raises otherwise; response.text is the raw body.
Response(status_code, valid_json, json, text) ==
    [status_code |-> status_code, valid_json |-> valid_json, json |-> json,
     text |-> text]

HttpResponses(n) ==
    {Response(200, TRUE, body, "<json>") : body \in ResponseBodies(n)}
        \cup {Response(200, FALSE, EmptyDict, "<html>gateway</html>"),
              Response(500, TRUE, Dict(None, Some("internal"), None), "<json>"),
              Response(500, FALSE, EmptyDict, "Internal Server Error")}

\* What the initial payload may look like: main() sends a system prompt and a
\* user prompt with all sampling parameters; a caller may omit the parameters.
SystemMessage == Msg("assistant", Some("You are a financial data extraction assistant."), None, NoToolCalls)
UserMessage == Msg("user", Some("I need to extract financial data from this URL"), None, NoToolCalls)

Payload(model, messages, max_tokens, temperature, top_p) ==
    [model |-> model, messages |-> messages, max_tokens |-> max_tokens,
     temperature |-> temperature, top_p |-> top_p]

Payloads ==
    {Payload("model-a", <<SystemMessage, UserMessage>>, Some(500), Some(70), Some(90)),
     Payload("model-b", <<UserMessage>>, None, Some(0), None)}

\* ------------------------------------------------- content and patterns
\* A content string is a sequence of tokens: a label, ":", a run of blanks
\* " ", a line break "\n", or a word. The text of a sequence is the
\* concatenation of its tokens.
RECURSIVE Text(_)
Text(tokens) ==
    IF tokens = <<>> THEN "" ELSE Head(tokens) \o Text(Tail(tokens))

\* Lines joined with "\n" into one content.
RECURSIVE JoinLines(_)
JoinLines(lines) ==
    IF lines = <<>> THEN <<>>
    ELSE IF Len(lines) = 1 THEN lines[1]
    ELSE lines[1] \o <<"\n">> \o JoinLines(Tail(lines))

\* The default extraction_patterns: key |-> the label its pattern starts with.
\* Every pattern has the shape  <label>:?\s*(.+?)(?:\n|$) .
DefaultExtractionPatterns ==
    [k \in {"company name", "stock symbol", "revenue", "net income", "EPS"} |->
        CASE k = "company name" -> "Company name"
          [] k = "stock symbol" -> "Stock symbol"
          [] k = "revenue" -> "Revenue"
          [] k = "net income" -> "Net income"
          [] k = "EPS" -> "EPS"]

\* Lower-casing of the label tokens, for re.IGNORECASE.
Lower(token) ==
    CASE token \in {"Company name", "COMPANY NAME"} -> "company name"
      [] token \in {"Stock symbol", "STOCK SYMBOL"} -> "stock symbol"
      [] token \in {"Revenue", "REVENUE"} -> "revenue"
      [] token \in {"Net income", "NET INCOME"} -> "net income"
      [] token \in {"EPS"} -> "eps"
      [] OTHER -> token

\* \s matches a blank run and a line break; . matches anything but a line break.
IsSpace(token) == token \in {" ", "\n"}

\* The last position of the line that position s is on.
RECURSIVE LineEnd(_, _)
LineEnd(content, s) ==
    IF s = Len(content) \/ content[s + 1] = "\n" THEN s ELSE LineEnd(content, s + 1)

\* The length of the run of \s tokens starting at position j.
RECURSIVE SpaceRun(_, _)
SpaceRun(content, j) ==
    IF j > Len(content) \/ ~IsSpace(content[j]) THEN 0
    ELSE 1 + SpaceRun(content, j + 1)

\* \s*(.+?)(?:\n|$) tried at position j: \s* is greedy and gives tokens back
\* until the group can start on a token that is not a line break; the lazy
\* group then runs to the end of that line. The capture as <<from, to>>.
CaptureFrom(content, j) ==
    LET starts == {s \in j .. j + SpaceRun(content, j) :
                       s <= Len(content) /\ content[s] # "\n"}
    IN  IF starts = {} THEN None
        ELSE LET s == CHOOSE x \in starts : \A y \in starts : y <= x
             IN  Some(<<s, LineEnd(content, s)>>)

\* The pattern of a label tried with the label at position i: the optional
\* colon is taken when present and given back when the rest cannot match.
MatchAt(label, content, i) ==
    IF Lower(content[i]) # Lower(label) THEN None
    ELSE IF i < Len(content) /\ content[i + 1] = ":"
              /\ CaptureFrom(content, i + 2) # None
    THEN CaptureFrom(content, i + 2)
    ELSE CaptureFrom(content, i + 1)

\* re.search(pattern, content, re.IGNORECASE): the leftmost match; group(1)
\* as a token sequence, or None.
re_search(label, content) ==
    LET hits == {i \in DOMAIN content : MatchAt(label, content, i) # None}
    IN  IF hits = {} THEN None
        ELSE LET i == CHOOSE x \in hits : \A y \in hits : x <= y
                 span == MatchAt(label, content, i)[1]
             IN  Some(SubSeq(content, span[1], span[2]))

\* str.strip() of a capture, which holds no line break: blank tokens at both
\* ends are dropped; the result as text.
RECURSIVE LStrip(_)
LStrip(tokens) ==
    IF tokens # <<>> /\ IsSpace(Head(tokens)) THEN LStrip(Tail(tokens)) ELSE tokens

RECURSIVE RStrip(_)
RStrip(tokens) ==
    IF tokens # <<>> /\ IsSpace(tokens[Len(tokens)])
    THEN RStrip(SubSeq(tokens, 1, Len(tokens) - 1))
    ELSE tokens

Strip(tokens) == Text(RStrip(LStrip(tokens)))

\* The values that count as missing.
NotFoundValues == {"Not found", "N/A", "Unknown"}

\* -------------------------------------------------------- data processor
\* `content` of a message: the key may be absent, null, or hold a string.
ContentAbsent == [key |-> "absent", text |-> <<>>]
ContentNull == [key |-> "null", text |-> <<>>]
ContentText(tokens) == [key |-> "text", text |-> tokens]

\* A choice whose message has the content field; a choice without a message.
Choice(content) == [message |-> Some([content |-> content])]
ChoiceNoMessage == [message |-> None]

\* _extract_data_from_content: key |-> trimmed capture, for the patterns that
\* match with a capture that is not a missing-value word.
extract_data_from_content(content, patterns) ==
    LET found == {k \in DOMAIN patterns :
                      /\ re_search(patterns[k], content) # None
                      /\ Strip(re_search(patterns[k], content)[1]) \notin NotFoundValues}
    IN  [k \in found |-> Strip(re_search(patterns[k], content)[1])]

\* A string as JSON writes it between the quotes: quotes are escaped. The
\* strings with quotes are the argument texts of tool calls.
JsonEscaped(text) ==
    CASE text = ArgsUrl -> "{\\\"url\\\": \\\"http://a\\\"}"
      [] text = ArgsExtra -> "{\\\"url\\\": \\\"http://a\\\", \\\"timeout\\\": 5}"
      [] text = ArgsTruncated -> "{\\\"url\\\": "
      [] OTHER -> text

JsonString(text) == "\"" \o JsonEscaped(text) \o "\""

RECURSIVE JoinWith(_, _)
JoinWith(texts, separator) ==
    IF texts = <<>> THEN ""
    ELSE IF Len(texts) = 1 THEN texts[1]
    ELSE texts[1] \o separator \o JoinWith(Tail(texts), separator)

\* A JSON object or array with the given members, one per line, the members
\* indented by two blanks more than the brackets.
JsonBlock(open, members, close, indent) ==
    IF members = <<>> THEN open \o close
    ELSE open \o "\n" \o indent \o "  "
             \o JoinWith(members, ",\n" \o indent \o "  ")
             \o "\n" \o indent \o close

JsonToolCall(call, indent) ==
    JsonBlock("{",
              <<"\"id\": " \o JsonString(call.id),
                "\"function\": " \o
                    JsonBlock("{",
                              <<"\"name\": " \o JsonString(call.function.name),
                                "\"arguments\": " \o JsonString(call.function.arguments)>>,
                              "}", indent \o "  ")>>,
              "}", indent)

JsonMessage(msg, indent) ==
    JsonBlock("{",
              <<"\"role\": " \o JsonString(msg.role),
                "\"content\": " \o
                    (IF msg.content = None THEN "null" ELSE JsonString(msg.content[1]))>>
              \o (IF msg.tool_calls.key = "absent" THEN <<>>
                  ELSE IF msg.tool_calls.key = "null" THEN <<"\"tool_calls\": null">>
                  ELSE <<"\"tool_calls\": " \o
                             JsonBlock("[",
                                       [i \in DOMAIN msg.tool_calls.list |->
                                           JsonToolCall(msg.tool_calls.list[i],
                                                        indent \o "    ")],
                                       "]", indent \o "  ")>>),
              "}", indent)

\* A decoded completion body: the keys it holds, choices before error.
JsonDict(d, indent) ==
    JsonBlock("{",
              (IF d.choices = None THEN <<>>
               ELSE <<"\"choices\": " \o
                          JsonBlock("[",
                                    [i \in DOMAIN d.choices[1] |->
                                        JsonBlock("{",
                                                  <<"\"message\": " \o
                                                        JsonMessage(d.choices[1][i].message,
                                                                    indent \o "      ")>>,
                                                  "}", indent \o "    ")],
                                    "]", indent \o "  ")>>)
              \o (IF d.error = None THEN <<>>
                  ELSE <<"\"error\": " \o JsonString(d.error[1])>>),
              "}", indent)

\* A faulty variant of json_dumps: the body is written with str(), as Python
\* prints a value, not as JSON.
PythonStr(body) ==
    IF body.form = "text" THEN body.text
    ELSE IF body.json.choices = None /\ body.json.error # None
    THEN "{'error': '" \o body.json.error[1] \o "'}"
    ELSE "{...}"

\* json.dumps(body, indent=2) of a response body: a text body becomes a quoted
\* string, a decoded body an indented object.
json_dumps(body) ==
    IF body.form = "text" THEN JsonString(body.text) ELSE JsonDict(body.json, "")

\* A faulty variant of format_error_message: the response body is left out.
FormatErrorMessageNoBody(resp) == "API Error: " \o resp.error[1]

\* _format_error_message.
format_error_message(resp) ==
    "API Error: " \o resp.error[1] \o
        (IF resp.response_body # None
         THEN "\n\nResponse Body: " \o json_dumps(resp.response_body[1])
         ELSE "")

\* The message and the content the try block reads, with the defaults of the
\* .get calls: no choices key gives [{}], no message key {}, no content key "".
FirstChoiceMessage(resp) ==
    IF resp.choices = None THEN None ELSE resp.choices[1][1].message

MessageContent(resp) ==
    IF FirstChoiceMessage(resp) = None THEN ContentText(<<>>)
    ELSE IF FirstChoiceMessage(resp)[1].content.key = "absent" THEN ContentText(<<>>)
    ELSE FirstChoiceMessage(resp)[1].content

\* The text of the exception the try block raises before extraction, or None.
ParsingFault(resp) ==
    IF resp.choices # None /\ resp.choices[1] = <<>>
    THEN Some("list index out of range")
    ELSE IF MessageContent(resp).key = "null"
    THEN Some("object of type 'NoneType' has no len()")
    ELSE None

\* A faulty variant of parse_financial_data: the body is not wrapped in
\* try/except, so an exception raised before extraction leaves the function.
ParseWithoutTry(resp, patterns, min_points) ==
    IF resp.error # None
    THEN [raised |-> FALSE, returned |-> <<None, Some(format_error_message(resp))>>,
          extracted |-> FALSE]
    ELSE IF ParsingFault(resp) # None
    THEN [raised |-> TRUE, returned |-> <<None, None>>, extracted |-> FALSE]
    ELSE LET content == MessageContent(resp).text
             data == extract_data_from_content(content, patterns)
         IN  IF Cardinality(DOMAIN data) >= min_points
             THEN [raised |-> FALSE, returned |-> <<Some(data), None>>,
                   extracted |-> TRUE]
             ELSE [raised |-> FALSE, returned |-> <<None, Some(Text(content))>>,
                   extracted |-> TRUE]

\* A faulty variant of parse_financial_data: the threshold test is strict.
ParseStrictThreshold(resp, patterns, min_points) ==
    IF resp.error # None
    THEN [raised |-> FALSE, returned |-> <<None, Some(format_error_message(resp))>>, extracted |-> FALSE]
    ELSE IF ParsingFault(resp) # None
    THEN [raised |-> FALSE, returned |-> <<None, Some("Parsing Error: " \o ParsingFault(resp)[1])>>,
          extracted |-> FALSE]
    ELSE LET content == MessageContent(resp).text
             data == extract_data_from_content(content, patterns)
         IN  IF Cardinality(DOMAIN data) > min_points
             THEN [raised |-> FALSE, returned |-> <<Some(data), None>>, extracted |-> TRUE]
             ELSE [raised |-> FALSE, returned |-> <<None, Some(Text(content))>>, extracted |-> TRUE]

\* parse_financial_data: the returned pair (data, error or summary), and
\* whether _extract_data_from_content was called.
parse_financial_data(resp, patterns, min_points) ==
    IF resp.error # None
    THEN [raised |-> FALSE, returned |-> <<None, Some(format_error_message(resp))>>, extracted |-> FALSE]
    ELSE IF ParsingFault(resp) # None
    THEN [raised |-> FALSE, returned |-> <<None, Some("Parsing Error: " \o ParsingFault(resp)[1])>>,
          extracted |-> FALSE]
    ELSE LET content == MessageContent(resp).text
             data == extract_data_from_content(content, patterns)
         IN  IF Cardinality(DOMAIN data) >= min_points
             THEN [raised |-> FALSE, returned |-> <<Some(data), None>>, extracted |-> TRUE]
             ELSE [raised |-> FALSE, returned |-> <<None, Some(Text(content))>>, extracted |-> TRUE]

\* ------------------------------------------------------------ constants
\* Sampling defaults of a continuation request; temperature and top_p are in
\* hundredths (0.3 and 0.95).
DefaultMaxTokens == 1000
DefaultTemperature == 30
DefaultTopP == 95

\* The processor's threshold: the fewest fields that count as an extraction.
DefaultMinDataPoints == 3

\* ----------------------------------------------------------------- state
VARIABLES
    pc,                 \* where process_with_tools stands
    payload,            \* the initial payload (argument)
    response,           \* local `response`: None while unbound
    response_data,      \* local `response_data`: None while unbound
    message,            \* local `message`: None while unbound
    messages_so_far,    \* local `messages_so_far`
    tool_idx,           \* position of the for loop in message["tool_calls"]
    conversation_turn,  \* local `conversation_turn`
    result,             \* the returned value: None until the function returns
    requests,           \* log: the JSON payloads posted, in order
    received,           \* log: per request, the HTTP response received or None
    invoked,            \* log: handler invocations, in order
    parse_input,        \* the response handed to parse_financial_data, or None
    extraction_patterns,\* the processor's `extraction_patterns`
    min_data_points,    \* the processor's `min_data_points`
    parsed,             \* log: what each parse_financial_data call returned
    fetch_input,        \* the url and what the network does with it, or None
    fetched             \* log: what each fetch_url_content call did

driver_vars ==
    <<pc, payload, response, response_data, message, messages_so_far, tool_idx,
      conversation_turn, result, requests, received, invoked>>

processor_vars == <<parse_input, extraction_patterns, min_data_points, parsed>>

scraper_vars == <<fetch_input, fetched>>

vars == <<driver_vars, processor_vars, scraper_vars>>

\* ------------------------------------------------------------- transport
\* requests.post either raises before a response exists (network fault) or
\* returns a response object.
PostOutcomes(n) == {None} \cup {Some(r) : r \in HttpResponses(n)}

\* The fault, if any, of post + raise_for_status + response.json().
PostFault(outcome) ==
    IF outcome = None THEN Some("ConnectionError: connection refused")
    ELSE IF outcome[1].status_code >= 400 THEN Some("500 Server Error")
    ELSE IF ~outcome[1].valid_json THEN Some("Expecting value: line 1 column 1 (char 0)")
    ELSE None

\* The fault, if any, of response_data["choices"][0]["message"].
FirstMessageFault(data) ==
    IF data.choices = None THEN Some("'choices'")
    ELSE IF Len(data.choices[1]) = 0 THEN Some("list index out of range")
    ELSE None

\* A faulty variant of FirstMessage: choices[-1], the message of the last choice.
LastChoiceMessage(data) == data.choices[1][Len(data.choices[1])].message

FirstMessage(data) == data.choices[1][1].message

\* A faulty variant of ErrorResult: the response body is never attached.
ErrorResultNoBody(error_msg, resp) == Dict(None, Some(error_msg), None)

\* The except block: the dict returned once any statement of the body raised.
\* `resp` is the local `response` at that moment.
ErrorResult(error_msg, resp) ==
    IF resp # None
    THEN IF resp[1].valid_json
         THEN Dict(None, Some(error_msg),
                   Some([form |-> "json", json |-> resp[1].json, text |-> ""]))
         ELSE Dict(None, Some(error_msg),
                   Some([form |-> "text", json |-> EmptyDict, text |-> resp[1].text]))
    ELSE Dict(None, Some(error_msg), None)

\* A faulty variant of Get: `payload.get(key) or default`, which also replaces
\* a value that is present but falsy.
GetOrDefault(field, default) ==
    IF field = None \/ field[1] = 0 THEN default ELSE field[1]

\* dict.get(key, default) on an optional field.
Get(field, default) == IF field = None THEN default ELSE field[1]

\* ----------------------------------------------------------------- tools
EmptyArgs == [k \in {} |-> ""]

\* json.loads on the arguments text: the decoded object, or a fault.
json_loads(text) ==
    CASE text = ArgsUrl -> [valid |-> TRUE, value |-> [url |-> "http://a"]]
      [] text = ArgsEmpty -> [valid |-> TRUE, value |-> EmptyArgs]
      [] text = ArgsExtra -> [valid |-> TRUE, value |-> [url |-> "http://a", timeout |-> "5"]]
      [] OTHER -> [valid |-> FALSE, value |-> EmptyArgs]

\* handler(**args): the TypeError of a call whose keywords do not bind.
BindingFault(name, args) ==
    IF tool_handlers[name] \ DOMAIN args # {}
    THEN Some(name \o "() missing 1 required positional argument")
    ELSE IF DOMAIN args \ tool_handlers[name] # {}
    THEN Some(name \o "() got an unexpected keyword argument")
    ELSE None

\* ------------------------------------------------------------ url scraper
\* A page is a sequence of elements, each a tag and the words of its text.
Element(tag, words) == [tag |-> tag, words |-> words]

\* The elements decomposed before the text is taken.
RemovedTags == {"script", "style", "nav", "footer", "header"}

\* What the network does with a GET: no response (the named fault), or a
\* response with a status and a page; `deep` marks a page nested beyond the
\* interpreter's recursion limit.
NoResponse(fault) ==
    [get |-> fault, status_code |-> 0, page |-> <<>>, deep |-> FALSE]
PageResponse(status_code, page, deep) ==
    [get |-> "response", status_code |-> status_code, page |-> page, deep |-> deep]

\* URLs requests refuses before any traffic: no scheme.
NoSchemeUrls == {"example.com/q3"}

\* soup.get_text(separator=' ', strip=True) and ' '.join(text.split()) after the
\* removed elements are gone: the remaining words, one blank between them.
RECURSIVE JoinWords(_)
JoinWords(words) ==
    IF words = <<>> THEN ""
    ELSE IF Len(words) = 1 THEN words[1]
    ELSE words[1] \o " " \o JoinWords(Tail(words))

RECURSIVE KeptWords(_)
KeptWords(page) ==
    IF page = <<>> THEN <<>>
    ELSE (IF Head(page).tag \in RemovedTags THEN <<>> ELSE Head(page).words)
             \o KeptWords(Tail(page))

clean_text(page) == JoinWords(KeptWords(page))

\* The exception the try block raises, as its class and text, or None:
\* requests.get and raise_for_status raise RequestException subclasses, the
\* parsing and clean-up any other Exception.
FetchFault(url, net) ==
    IF url \in NoSchemeUrls
    THEN Some([class |-> "RequestException",
               text |-> "Invalid URL '" \o url \o "': No scheme supplied"])
    ELSE IF net.get # "response"
    THEN Some([class |-> "RequestException", text |-> net.get])
    ELSE IF net.status_code >= 400
    THEN Some([class |-> "RequestException",
               text |-> "404 Client Error: Not Found for url: " \o url])
    ELSE IF net.deep
    THEN Some([class |-> "Exception", text |-> "maximum recursion depth exceeded"])
    ELSE None

\* A faulty variant of FetchUrlContentOn: only the RequestException clause is
\* there, any other exception leaves the function.
FetchUrlContentRequestFaultsOnly(url, net) ==
    LET fault == FetchFault(url, net)
    IN  IF fault = None
        THEN [raised |-> FALSE, returned |-> <<Some(clean_text(net.page)), None>>]
        ELSE IF fault[1].class = "RequestException"
        THEN [raised |-> FALSE,
              returned |-> <<None, Some("Error fetching URL " \o url \o ": "
                                            \o fault[1].text)>>]
        ELSE [raised |-> TRUE, returned |-> <<None, None>>]

\* fetch_url_content(url) when the network does `net`: whether an exception
\* leaves the function, and the pair it returns.
FetchUrlContentOn(url, net) ==
    LET fault == FetchFault(url, net)
    IN  IF fault = None
        THEN [raised |-> FALSE, returned |-> <<Some(clean_text(net.page)), None>>]
        ELSE IF fault[1].class = "RequestException"
        THEN [raised |-> FALSE,
              returned |-> <<None, Some("Error fetching URL " \o url \o ": "
                                            \o fault[1].text)>>]
        ELSE IF fault[1].class = "Exception"
        THEN [raised |-> FALSE,
              returned |-> <<None, Some("Unexpected error processing URL " \o url \o ": "
                                            \o fault[1].text)>>]
        ELSE [raised |-> TRUE, returned |-> <<None, None>>]

\* What the network does during a run of the driver: a page with text, a page
\* with nothing but script, a timeout.
ToolNetworks ==
    {PageResponse(200, <<Element("p", <<"Acme", "Corp", "reports", "revenue", "of",
                                         "$1B">>)>>, FALSE),
     PageResponse(200, <<Element("script", <<"track()">>)>>, FALSE),
     NoResponse("timed out")}

\* The pairs fetch_url_content may return for a URL.
fetch_url_content(url) ==
    {FetchUrlContentOn(url, net).returned : net \in ToolNetworks}

\* A faulty variant of ToolResponse: the tool_call_id is left out.
ToolResponseNoId(tool_call, content, error) ==
    IF Truthy(content)
    THEN Msg("assistant", content, None, NoToolCalls)
    ELSE Msg("assistant", Some("Error: " \o Str(error)), None, NoToolCalls)

\* The message appended for an executed tool call.
ToolResponse(tool_call, content, error) ==
    IF Truthy(content)
    THEN Msg("assistant", content, Some(tool_call.id), NoToolCalls)
    ELSE Msg("assistant", Some("Error: " \o Str(error)), Some(tool_call.id), NoToolCalls)

\* A faulty variant of InMessage: `message.get("tool_calls", []) is not None`.
InMessageDefaultList(msg) == msg.tool_calls.key # "null"

\* A faulty variant of InMessage: `while True`, a loop without an exit test.
InMessageAlways(msg) == TRUE

\* `"tool_calls" in message`: the loop condition.
InMessage(msg) == msg.tool_calls.key # "absent"

\* --------------------------------------------------------------- actions
\* No response has been handed to the processor; the processor is as
\* constructed with the default patterns.
ProcessorIdle ==
    /\ parse_input = None
    /\ extraction_patterns = DefaultExtractionPatterns
    /\ min_data_points = DefaultMinDataPoints
    /\ parsed = <<>>

\* fetch_url_content has not been called on its own.
ScraperIdle ==
    /\ fetch_input = None
    /\ fetched = <<>>

Init ==
    /\ ProcessorIdle
    /\ ScraperIdle
    /\ pc = "initial"
    /\ payload \in Payloads
    /\ response = None
    /\ response_data = None
    /\ message = None
    /\ messages_so_far = <<>>
    /\ tool_idx = 0
    /\ conversation_turn = 0
    /\ result = None
    /\ requests = <<>>
    /\ received = <<>>
    /\ invoked = <<>>

\* The tool calls the messages of a sequence carry, in all.
RECURSIVE CountToolCalls(_)
CountToolCalls(msgs) ==
    IF msgs = <<>> THEN 0
    ELSE Len(msgs[1].tool_calls.list) + CountToolCalls(Tail(msgs))

\* A faulty variant of Return: an error is not returned; the step that hit it
\* is left to run again.
ReturnUnlessError(value) ==
    IF value.error # None
    THEN UNCHANGED <<result, pc>>
    ELSE /\ result' = Some(value)
         /\ pc' = "returned"

\* `return value`, from the body or from the except block.
Return(value) ==
    /\ result' = Some(value)
    /\ pc' = "returned"

\* Where the for loop stands once it has moved to position i of the calls.
AfterCall(i) == IF i > Len(message[1].tool_calls.list) THEN "continuation" ELSE "for"

\* The initial request: post the payload, decode the response, read the first
\* choice's message and start the running message sequence.
InitialRequest ==
    /\ pc = "initial"
    /\ \E outcome \in PostOutcomes(MaxToolCalls) :
        LET resp == IF outcome = None THEN response ELSE outcome
            fault == PostFault(outcome)
        IN  /\ requests' = Append(requests, payload)
            /\ received' = Append(received, outcome)
            /\ response' = resp
            /\ IF fault # None
               THEN /\ Return(ErrorResult(fault[1], resp))
                    /\ UNCHANGED <<response_data, message, messages_so_far,
                                   conversation_turn>>
               ELSE /\ response_data' = Some(outcome[1].json)
                    /\ IF FirstMessageFault(outcome[1].json) # None
                       THEN /\ Return(ErrorResult(FirstMessageFault(outcome[1].json)[1], resp))
                            /\ UNCHANGED <<message, messages_so_far, conversation_turn>>
                       ELSE /\ message' = Some(FirstMessage(outcome[1].json))
                            /\ messages_so_far' =
                                   payload.messages \o <<FirstMessage(outcome[1].json)>>
                            /\ conversation_turn' = 1
                            /\ pc' = "while"
                            /\ UNCHANGED result
    /\ UNCHANGED <<processor_vars, scraper_vars>>
    /\ UNCHANGED <<payload, tool_idx, invoked>>

\* A faulty variant of WhileTest: the loop stands outside the try block, so the
\* fault of iterating a null tool_calls leaves the function.
WhileTestOutsideTry ==
    /\ pc = "while"
    /\ IF ~InMessage(message[1])
       THEN /\ Return(response_data[1])
            /\ UNCHANGED tool_idx
       ELSE IF message[1].tool_calls.key = "null"
       THEN /\ pc' = "raised"
            /\ UNCHANGED <<result, tool_idx>>
       ELSE /\ tool_idx' = 1
            /\ pc' = AfterCall(1)
            /\ UNCHANGED result
    /\ UNCHANGED <<processor_vars, scraper_vars>>
    /\ UNCHANGED <<payload, response, response_data, message, messages_so_far,
                   conversation_turn, requests, received, invoked>>

\* The while test: with no "tool_calls" key the last response is returned;
\* with the key, the for loop over its value starts (a null value is not
\* iterable).
WhileTest ==
    /\ pc = "while"
    /\ IF ~InMessage(message[1])
       THEN /\ Return(response_data[1])
            /\ UNCHANGED tool_idx
       ELSE IF message[1].tool_calls.key = "null"
       THEN /\ Return(ErrorResult("'NoneType' object is not iterable", response))
            /\ UNCHANGED tool_idx
       ELSE /\ tool_idx' = 1
            /\ pc' = AfterCall(1)
            /\ UNCHANGED result
    /\ UNCHANGED <<processor_vars, scraper_vars>>
    /\ UNCHANGED <<payload, response, response_data, message, messages_so_far,
                   conversation_turn, requests, received, invoked>>

\* A faulty variant of SkipToolCall: an "unknown tool" message is appended.
SkipToolCallAppends ==
    /\ pc = "for"
    /\ message[1].tool_calls.list[tool_idx].function.name \notin DOMAIN tool_handlers
    /\ messages_so_far' =
           Append(messages_so_far,
                  Msg("assistant", Some("Error: unknown tool"),
                      Some(message[1].tool_calls.list[tool_idx].id), NoToolCalls))
    /\ tool_idx' = tool_idx + 1
    /\ pc' = AfterCall(tool_idx + 1)
    /\ UNCHANGED <<processor_vars, scraper_vars>>
    /\ UNCHANGED <<payload, response, response_data, message, conversation_turn,
                   result, requests, received, invoked>>

\* One iteration of the for loop on a call whose tool has no handler.
SkipToolCall ==
    /\ pc = "for"
    /\ message[1].tool_calls.list[tool_idx].function.name \notin DOMAIN tool_handlers
    /\ tool_idx' = tool_idx + 1
    /\ pc' = AfterCall(tool_idx + 1)
    /\ UNCHANGED <<processor_vars, scraper_vars>>
    /\ UNCHANGED <<payload, response, response_data, message, messages_so_far,
                   conversation_turn, result, requests, received, invoked>>

\* A faulty variant of AppendMessage: a message equal to one already in the
\* sequence is not added again.
AppendMessageUnlessPresent(msgs, m) ==
    IF \E i \in DOMAIN msgs : msgs[i] = m THEN msgs ELSE Append(msgs, m)

\* A faulty variant of AppendMessage: list.insert(-1, m), which puts the message
\* before the last element instead of after it.
AppendMessageBeforeLast(msgs, m) ==
    IF msgs = <<>> THEN <<m>>
    ELSE SubSeq(msgs, 1, Len(msgs) - 1) \o <<m, msgs[Len(msgs)]>>

\* messages_so_far.append(m): the message goes to the end of the sequence.
AppendMessage(msgs, m) == Append(msgs, m)

\* One iteration of the for loop on a call to a registered tool: decode the
\* arguments, call the handler, append the tool response.
ExecuteToolCall ==
    /\ pc = "for"
    /\ LET tool_call == message[1].tool_calls.list[tool_idx]
           function_name == tool_call.function.name
           decoded == json_loads(tool_call.function.arguments)
           args == decoded.value
       IN  /\ function_name \in DOMAIN tool_handlers
           /\ IF ~decoded.valid
              THEN /\ Return(ErrorResult("Expecting value: line 1 column 9 (char 8)", response))
                   /\ UNCHANGED <<messages_so_far, tool_idx, invoked>>
              ELSE IF BindingFault(function_name, args) # None
              THEN /\ Return(ErrorResult(BindingFault(function_name, args)[1], response))
                   /\ invoked' = Append(invoked,
                          [tool_call |-> tool_call, args |-> args, raised |-> TRUE,
                           returned |-> <<None, None>>])
                   /\ UNCHANGED <<messages_so_far, tool_idx>>
              ELSE \E pair \in fetch_url_content(args.url) :
                   /\ invoked' = Append(invoked,
                          [tool_call |-> tool_call, args |-> args, raised |-> FALSE,
                           returned |-> pair])
                   /\ messages_so_far' =
                          AppendMessage(messages_so_far,
                                        ToolResponse(tool_call, pair[1], pair[2]))
                   /\ tool_idx' = tool_idx + 1
                   /\ pc' = AfterCall(tool_idx + 1)
                   /\ UNCHANGED result
    /\ UNCHANGED <<processor_vars, scraper_vars>>
    /\ UNCHANGED <<payload, response, response_data, message, conversation_turn,
                   requests, received>>

\* A faulty variant of ContinuationPayload: the initial messages are resent
\* instead of the accumulated sequence.
ContinuationPayloadInitialMessages ==
    Payload(payload.model, payload.messages,
            Some(Get(payload.max_tokens, DefaultMaxTokens)),
            Some(Get(payload.temperature, DefaultTemperature)),
            Some(Get(payload.top_p, DefaultTopP)))

\* The payload of a continuation request.
ContinuationPayload ==
    Payload(payload.model, messages_so_far,
            Some(Get(payload.max_tokens, DefaultMaxTokens)),
            Some(Get(payload.temperature, DefaultTemperature)),
            Some(Get(payload.top_p, DefaultTopP)))

\* The end of the loop body: post the continuation request, decode the
\* response, take its first message as the new message and append it.
ContinuationRequest ==
    /\ pc = "continuation"
    /\ Len(requests) < MaxRequests
    /\ \E outcome \in PostOutcomes(MaxToolCalls - CountToolCalls(messages_so_far)) :
        LET resp == IF outcome = None THEN response ELSE outcome
            fault == PostFault(outcome)
        IN  /\ requests' = Append(requests, ContinuationPayload)
            /\ received' = Append(received, outcome)
            /\ response' = resp
            /\ IF fault # None
               THEN /\ Return(ErrorResult(fault[1], resp))
                    /\ UNCHANGED <<response_data, message, messages_so_far,
                                   conversation_turn>>
               ELSE /\ response_data' = Some(outcome[1].json)
                    /\ IF FirstMessageFault(outcome[1].json) # None
                       THEN /\ Return(ErrorResult(FirstMessageFault(outcome[1].json)[1], resp))
                            /\ UNCHANGED <<message, messages_so_far, conversation_turn>>
                       ELSE /\ message' = Some(FirstMessage(outcome[1].json))
                            /\ messages_so_far' =
                                   AppendMessage(messages_so_far,
                                                 FirstMessage(outcome[1].json))
                            /\ conversation_turn' = conversation_turn + 1
                            /\ pc' = "while"
                            /\ UNCHANGED result
    /\ UNCHANGED <<processor_vars, scraper_vars>>
    /\ UNCHANGED <<payload, tool_idx, invoked>>

\* The tokens of the content strings the completions carry.
Tokens(text) ==
    CASE text = "Revenue: $1B" -> <<"Revenue", ":", " ", "$1B">>
      [] text = "Net income: $2B" -> <<"Net income", ":", " ", "$2B">>
      [] OTHER -> <<text>>

\* The map process_with_tools returned, as parse_financial_data reads it: of
\* each choice the message's content.
AsParsedResponse(value) ==
    [choices |-> IF value.choices = None THEN None
                 ELSE Some([i \in DOMAIN value.choices[1] |->
                               LET content == value.choices[1][i].message.content
                               IN  Choice(IF content = None THEN ContentNull
                                          ELSE ContentText(Tokens(content[1])))]),
     error |-> value.error,
     response_body |-> value.response_body]

\* main(): data, error_or_summary = parse_financial_data(response), on the
\* map process_with_tools returned.
ParseResponse ==
    /\ pc = "returned"
    /\ parsed = <<>>
    /\ LET value == AsParsedResponse(result[1])
       IN  /\ parse_input' = Some(value)
           /\ parsed' = <<parse_financial_data(value, extraction_patterns,
                                               min_data_points)>>
    /\ UNCHANGED <<driver_vars, extraction_patterns, min_data_points, scraper_vars>>

Next ==
    \/ InitialRequest
    \/ WhileTest
    \/ SkipToolCall
    \/ ExecuteToolCall
    \/ ContinuationRequest
    \/ ParseResponse

Spec == Init /\ [][Next]_vars

\* The steps of process_with_tools.
ProcessWithToolsNext ==
    \/ InitialRequest
    \/ WhileTest
    \/ SkipToolCall
    \/ ExecuteToolCall
    \/ ContinuationRequest

\* The driver is one sequential thread: as long as it has a next statement to
\* run, it runs it.
FairSpec == Spec /\ WF_vars(ProcessWithToolsNext)

\* The payload object handed to the transport with request k, as it is now.
\* The initial request is the caller's payload, whose message list is copied
\* when the running sequence is built (payload["messages"] + [message]); a
\* continuation payload holds messages_so_far itself, not a copy, so it shows
\* whatever is appended to that list later.
SentRequestNow(k) ==
    IF k = 1 THEN payload ELSE [requests[k] EXCEPT !.messages = messages_so_far]

\* ------------------------------------------- parse_financial_data alone
\* The lines a content is made of: each label with a value; three labels with
\* a missing-value word; two labels with nothing after the colon; a label in
\* upper case without a colon, with a value that differs from a missing-value
\* word in case only and a trailing blank; and a line of prose that mentions
\* a label.
Lines ==
    {<<DefaultExtractionPatterns[k], ":", " ", "Acme">> :
         k \in DOMAIN DefaultExtractionPatterns}
    \cup {<<"Company name", ":", " ", "Not found">>,
          <<"Stock symbol", ":", " ", "N/A">>,
          <<"Revenue", ":", " ", "Unknown">>,
          <<"Revenue", ":">>,
          <<"EPS", ":">>,
          <<"NET INCOME", " ", "n/a", " ">>,
          <<"Quarterly", " ", "revenue", " ", "rose">>}

Contents(n) == {JoinLines(lines) : lines \in SeqsUpTo(Lines, n)}

\* A content with three fields, for the responses that also carry an error.
ThreeFieldContent ==
    JoinLines(<<<<"Company name", ":", " ", "Acme">>, <<"Revenue", ":", " ", "Acme">>,
                <<"EPS", ":", " ", "Acme">>>>)

TextBody(text) == [form |-> "text", json |-> EmptyDict, text |-> text]
JsonBody(json) == [form |-> "json", json |-> json, text |-> ""]

\* The responses handed to parse_financial_data: a first message with each
\* content; the shapes without a usable content; and error maps, with and
\* without a response body and choices.
ParseInputs(n) ==
    {Dict(Some(<<Choice(ContentText(c))>>), None, None) : c \in Contents(n)}
    \cup {EmptyDict,
          Dict(Some(<<>>), None, None),
          Dict(Some(<<ChoiceNoMessage>>), None, None),
          Dict(Some(<<Choice(ContentAbsent)>>), None, None),
          Dict(Some(<<Choice(ContentNull)>>), None, None)}
    \cup {Dict(choices, Some(error), body) :
              choices \in {None, Some(<<Choice(ContentText(ThreeFieldContent))>>)},
              error \in {"model overloaded", "500 Server Error: Internal Server Error"},
              body \in {None, Some(TextBody("Internal Server Error")),
                        Some(JsonBody(Dict(None, Some("internal"), None)))}}

\* The driver is not part of a run of the processor or of the scraper alone.
DriverUnused ==
    /\ pc = "unused"
    /\ payload = None
    /\ response = None
    /\ response_data = None
    /\ message = None
    /\ messages_so_far = <<>>
    /\ tool_idx = 0
    /\ conversation_turn = 0
    /\ result = None
    /\ requests = <<>>
    /\ received = <<>>
    /\ invoked = <<>>

InitParse ==
    /\ DriverUnused
    /\ ScraperIdle
    /\ parse_input \in {Some(resp) : resp \in ParseInputs(MaxLines)}
    /\ extraction_patterns = DefaultExtractionPatterns
    /\ min_data_points = DefaultMinDataPoints
    /\ parsed = <<>>

\* A faulty variant of ParseFinancialData: the error marker is popped from the
\* response while the error message is built.
ParseFinancialDataPopsError ==
    /\ parse_input # None
    /\ Len(parsed) < 2
    /\ parsed' = Append(parsed, parse_financial_data(parse_input[1], extraction_patterns,
                                                     min_data_points))
    /\ parse_input' = Some([parse_input[1] EXCEPT !.error = None])
    /\ UNCHANGED <<extraction_patterns, min_data_points>>
    /\ UNCHANGED <<driver_vars, scraper_vars>>

\* One call of parse_financial_data on the response; a caller may call again
\* on the same response.
ParseFinancialData ==
    /\ parse_input # None
    /\ Len(parsed) < 2
    /\ parsed' = Append(parsed, parse_financial_data(parse_input[1], extraction_patterns,
                                                     min_data_points))
    /\ UNCHANGED <<parse_input, extraction_patterns, min_data_points>>
    /\ UNCHANGED <<driver_vars, scraper_vars>>

NextParse == ParseFinancialData

SpecParse == InitParse /\ [][NextParse]_vars

\* --------------------------------------------- fetch_url_content alone
Urls == {"https://example.com/q3", "https://example.com/10-k"} \cup NoSchemeUrls

\* The elements of a page, and the pages of up to n elements.
Elements ==
    {Element(tag, words) : tag \in {"p", "script", "nav"},
                           words \in {<<>>, <<"Revenue", "$1B">>}}

Pages(n) == SeqsUpTo(Elements, n)

\* What the network may do with a GET.
Networks(n) ==
    {NoResponse("timed out"), NoResponse("connection refused")}
    \cup {PageResponse(404, <<>>, FALSE)}
    \cup {PageResponse(200, page, FALSE) : page \in Pages(n)}
    \cup {PageResponse(200, <<Element("p", <<"Revenue", "$1B">>)>>, TRUE)}

InitFetch ==
    /\ DriverUnused
    /\ ProcessorIdle
    /\ fetch_input \in {Some([url |-> url, net |-> net]) :
                            url \in Urls, net \in Networks(MaxElements)}
    /\ fetched = <<>>

\* One call of fetch_url_content.
FetchUrlContent ==
    /\ fetch_input # None
    /\ fetched = <<>>
    /\ fetched' = <<FetchUrlContentOn(fetch_input[1].url, fetch_input[1].net)>>
    /\ UNCHANGED fetch_input
    /\ UNCHANGED <<driver_vars, processor_vars>>

NextFetch == FetchUrlContent

SpecFetch == InitFetch /\ [][NextFetch]_vars

\* ------------------------------------------------- readers of the logs
Registered(call) == call.function.name \in DOMAIN tool_handlers

RegisteredCalls(msg) == SelectSeq(msg.tool_calls.list, Registered)

\* Request k was answered 2xx with a body that decodes and holds a first message.
Answered(k) ==
    /\ k \in DOMAIN received
    /\ received[k] # None
    /\ received[k][1].status_code = 200
    /\ received[k][1].valid_json
    /\ received[k][1].json.choices # None
    /\ received[k][1].json.choices[1] # <<>>

\* The first choice's message of the response to request k.
ResponseMessage(k) == received[k][1].json.choices[1][1].message

\* Request k failed in transport: a network fault or a non-2xx status.
Failed(k) ==
    /\ k \in DOMAIN received
    /\ (received[k] = None \/ received[k][1].status_code >= 400)

\* The function returned a completion response (not the error dict).
ReturnedResponse == pc = "returned" /\ result[1].choices # None

\* The tool call the for loop stands at.
CurrentCall == message[1].tool_calls.list[tool_idx]

\* The function returned from inside the for loop, at CurrentCall.
AbortedAtCall ==
    /\ pc = "returned"
    /\ message # None
    /\ tool_idx \in DOMAIN message[1].tool_calls.list

\* The messages request k (a continuation) carries after those of request k-1
\* and the assistant message that followed them.
TurnResults(k) ==
    SubSeq(requests[k].messages, Len(requests[k - 1].messages) + 2,
           Len(requests[k].messages))

CallIds == {c.id : c \in ToolCalls}

\* How many tool calls of a sequence carry the id; how many messages answer it.
CallsWithId(calls, id) == Cardinality({i \in DOMAIN calls : calls[i].id = id})
ResultsWithId(msgs, id) ==
    Cardinality({i \in DOMAIN msgs : msgs[i].tool_call_id = Some(id)})

\* The tool-result messages of the running sequence, in order.
ToolMessages == SelectSeq(messages_so_far, LAMBDA m : m.tool_call_id # None)

\* ---------------------------------------------------------------- claims

\* C1: when the message of the first response carries no tool_calls key, the
\* driver posts exactly one request (the initial payload), invokes no handler
\* and returns the decoded body of that response unchanged.
C1_NoToolCallsSingleRequest ==
    (Answered(1) /\ ResponseMessage(1).tool_calls.key = "absent") =>
        /\ requests = <<payload>>
        /\ invoked = <<>>
        /\ pc \in {"while", "returned"}
        /\ pc = "returned" => result = Some(received[1][1].json)

C1_Witness ==
    /\ pc = "returned"
    /\ Answered(1)
    /\ ResponseMessage(1).tool_calls.key = "absent"
    /\ result = Some(received[1][1].json)

\* C2 (as claimed): a continuation request is posted exactly when the latest
\* response message holds a non-empty tool_calls list; a message whose
\* tool_calls is absent or an empty list is final and its response is returned
\* with no further request.
C2_ContinuationIffNonEmptyToolCalls ==
    /\ \A k \in 2..Len(requests) :
           /\ ResponseMessage(k - 1).tool_calls.key = "list"
           /\ ResponseMessage(k - 1).tool_calls.list # <<>>
    /\ \A k \in DOMAIN received :
           (Answered(k) /\ ResponseMessage(k).tool_calls.list = <<>>
                        /\ ResponseMessage(k).tool_calls.key # "null") =>
               /\ Len(requests) = k
               /\ pc = "returned" => result = Some(received[k][1].json)

\* C3 (as claimed): in every continuation request, each tool call of the
\* preceding assistant message is answered by exactly one tool-result message
\* carrying its id, placed after that assistant message.
C3_EveryCallAnswered ==
    \A k \in 2..Len(requests) :
        /\ requests[k].messages[Len(requests[k - 1].messages) + 1] = ResponseMessage(k - 1)
        /\ \A i \in DOMAIN TurnResults(k) : TurnResults(k)[i].tool_call_id # None
        /\ \A id \in CallIds :
               ResultsWithId(TurnResults(k), id)
                   = CallsWithId(ResponseMessage(k - 1).tool_calls.list, id)

\* C3 (amended): in every continuation request, each tool call of the
\* preceding assistant message that names a registered handler is answered by
\* exactly one tool-result message carrying its id, placed after that
\* assistant message; a call naming an unregistered tool is answered by none.
C3_EveryRegisteredCallAnswered ==
    \A k \in 2..Len(requests) :
        /\ requests[k].messages[Len(requests[k - 1].messages) + 1] = ResponseMessage(k - 1)
        /\ \A i \in DOMAIN TurnResults(k) : TurnResults(k)[i].tool_call_id # None
        /\ \A id \in CallIds :
               ResultsWithId(TurnResults(k), id)
                   = CallsWithId(RegisteredCalls(ResponseMessage(k - 1)), id)

C3_Witness ==
    /\ Len(requests) >= 2
    /\ Len(RegisteredCalls(ResponseMessage(1))) = 1
    /\ Len(ResponseMessage(1).tool_calls.list) = 2

\* C4 (as claimed): the continuation request of a turn whose response message
\* has n tool calls carries 1 + n messages more than the previous request.
C4_LengthGrowsByAllCalls ==
    \A k \in 2..Len(requests) :
        Len(requests[k].messages)
            = Len(requests[k - 1].messages) + 1
                + Len(ResponseMessage(k - 1).tool_calls.list)

\* C4 (amended): the continuation request of a turn carries 1 + n messages
\* more than the previous request, n being the number of tool calls of the
\* turn's response message that name a registered handler.
C4_LengthGrowsByRegisteredCalls ==
    \A k \in 2..Len(requests) :
        Len(requests[k].messages)
            = Len(requests[k - 1].messages) + 1
                + Len(RegisteredCalls(ResponseMessage(k - 1)))

C4_Witness ==
    /\ Len(requests) = 3
    /\ Len(RegisteredCalls(ResponseMessage(1))) = 1
    /\ Len(ResponseMessage(2).tool_calls.list) = 1
    /\ RegisteredCalls(ResponseMessage(2)) = <<>>

\* C5 (as claimed): a registered tool call whose arguments text is not valid
\* JSON does not abort the run: an error-content tool-result message carrying
\* the call's id is appended, and the driver goes on to the remaining calls
\* and the continuation request; no structured error is returned.
C5_MalformedArgumentsRecovered ==
    [][ ( /\ pc = "for"
          /\ Registered(CurrentCall)
          /\ ~json_loads(CurrentCall.function.arguments).valid )
        => /\ result' = None
           /\ Len(messages_so_far') = Len(messages_so_far) + 1
           /\ messages_so_far'[Len(messages_so_far')].tool_call_id = Some(CurrentCall.id)
           /\ tool_idx' = tool_idx + 1
           /\ pc' \in {"for", "continuation"} ]_vars

\* C6 (as claimed): when calling a registered handler faults (a required
\* argument is missing, or an unexpected one is passed), the fault is recovered
\* locally: a tool-result message "Error: <message>" carrying the call's id is
\* appended and the run goes on instead of returning a structured error.
C6_HandlerFaultRecovered ==
    [][ ( /\ pc = "for"
          /\ Registered(CurrentCall)
          /\ json_loads(CurrentCall.function.arguments).valid
          /\ DOMAIN json_loads(CurrentCall.function.arguments).value
                 # tool_handlers[CurrentCall.function.name] )
        => /\ result' = None
           /\ Len(messages_so_far') = Len(messages_so_far) + 1
           /\ messages_so_far'[Len(messages_so_far')].tool_call_id = Some(CurrentCall.id)
           /\ messages_so_far'[Len(messages_so_far')].content
                  = Some("Error: " \o BindingFault(CurrentCall.function.name,
                             json_loads(CurrentCall.function.arguments).value)[1])
           /\ tool_idx' = tool_idx + 1
           /\ pc' \in {"for", "continuation"} ]_vars

\* C7 (as claimed): every ToolResult a registered handler returns is answered
\* by one appended message whose tool_call_id is the call's id and whose
\* content is ToolResult.content when that is non-null (the empty text
\* included) and "Error: " + ToolResult.error otherwise; a returned failure
\* never ends the run.
C7_ToolResultMessage ==
    /\ Len(ToolMessages) = Cardinality({i \in DOMAIN invoked : ~invoked[i].raised})
    /\ \A i \in DOMAIN ToolMessages :
           /\ ~invoked[i].raised
           /\ ToolMessages[i].tool_call_id = Some(invoked[i].tool_call.id)
           /\ ToolMessages[i].content =
                  IF invoked[i].returned[1] # None
                  THEN invoked[i].returned[1]
                  ELSE Some("Error: " \o invoked[i].returned[2][1])

\* C8: a tool call naming an unregistered tool is skipped: the step invokes no
\* handler, appends no message, returns nothing and moves on to the next call
\* or to the continuation request; a turn that holds such a call ends without
\* its continuation request only by the fault of a registered call of the same
\* message; a request that follows a message of unregistered calls only adds
\* that assistant message alone; and after such a message the driver returns a
\* response only if it is a later one whose message has no tool calls.
C8_SkipStep ==
    (pc = "for" /\ ~Registered(CurrentCall)) =>
        /\ invoked' = invoked
        /\ messages_so_far' = messages_so_far
        /\ requests' = requests
        /\ result' = None
        /\ tool_idx' = tool_idx + 1
        /\ pc' = IF tool_idx = Len(message[1].tool_calls.list)
                 THEN "continuation" ELSE "for"

C8_SkipState ==
    \A k \in DOMAIN received :
        ( /\ Answered(k)
          /\ \E i \in DOMAIN ResponseMessage(k).tool_calls.list :
                 ~Registered(ResponseMessage(k).tool_calls.list[i]) ) =>
            /\ ( /\ k < Len(requests)
                 /\ RegisteredCalls(ResponseMessage(k)) = <<>> ) =>
                   requests[k + 1].messages
                       = requests[k].messages \o <<ResponseMessage(k)>>
            /\ (pc = "returned" /\ Len(requests) = k) =>
                   (AbortedAtCall /\ Registered(CurrentCall))
            /\ ReturnedResponse =>
                   /\ Len(received) > k
                   /\ result = Some(received[Len(received)][1].json)
                   /\ ResponseMessage(Len(received)).tool_calls.list = <<>>

C8_UnregisteredToolSkipped == []C8_SkipState /\ [][C8_SkipStep]_vars

C8_Witness ==
    /\ ReturnedResponse
    /\ Len(requests) = 2
    /\ Len(ResponseMessage(1).tool_calls.list) = 1
    /\ RegisteredCalls(ResponseMessage(1)) = <<>>
    /\ invoked = <<>>

\* C9: when the initial request fails (network fault or non-2xx status) the
\* driver returns at once, having posted one request and invoked nothing, a
\* structured error with the error text; the error carries a response body
\* exactly when an HTTP response was received: the decoded JSON if the body
\* decodes, the raw text otherwise.
C9_InitialFailureStructuredError ==
    Failed(1) =>
        /\ pc = "returned"
        /\ Len(requests) = 1
        /\ invoked = <<>>
        /\ result # None
        /\ result[1].choices = None
        /\ result[1].error # None
        /\ result[1].error = PostFault(received[1])
        /\ result[1].response_body =
               IF received[1] = None THEN None
               ELSE IF received[1][1].valid_json
               THEN Some([form |-> "json", json |-> received[1][1].json, text |-> ""])
               ELSE Some([form |-> "text", json |-> EmptyDict,
                          text |-> received[1][1].text])

C9_Witness ==
    /\ Failed(1)
    /\ received[1] # None
    /\ ~received[1][1].valid_json
    /\ result[1].response_body # None
    /\ result[1].response_body[1].form = "text"

\* C10 (as claimed): when a continuation request fails (network fault or
\* non-2xx status) the structured error returned holds the error text and, if
\* a response to the failed request was received, that response's body, and
\* nothing of an earlier turn: no body when no response was received.
C10_ContinuationFailureOwnBodyOnly ==
    \A k \in 2..Len(received) :
        Failed(k) =>
            /\ pc = "returned"
            /\ result[1].choices = None
            /\ result[1].error = PostFault(received[k])
            /\ result[1].response_body =
                   IF received[k] = None THEN None
                   ELSE IF received[k][1].valid_json
                   THEN Some([form |-> "json", json |-> received[k][1].json, text |-> ""])
                   ELSE Some([form |-> "text", json |-> EmptyDict,
                              text |-> received[k][1].text])

\* s is an initial segment of t.
IsPrefix(s, t) == Len(s) <= Len(t) /\ SubSeq(t, 1, Len(s)) = s

\* C11: the running message sequence is append-only over a run. The messages of
\* every request sent are a prefix of the messages of every later request;
\* once built, the running sequence only grows at its end; and every handler
\* invocation that returned has a tool-result message of its own, so two tool
\* calls with identical results yield two messages.
C11_PrefixState ==
    /\ \A j, k \in DOMAIN requests :
           j < k => IsPrefix(requests[j].messages, requests[k].messages)
    /\ Len(ToolMessages) = Cardinality({i \in DOMAIN invoked : ~invoked[i].raised})

C11_GrowStep ==
    messages_so_far # <<>> => IsPrefix(messages_so_far, messages_so_far')

C11_AppendOnly == []C11_PrefixState /\ [][C11_GrowStep]_vars

\* A continuation request was sent that carries two equal tool-result messages.
C11_Witness ==
    \E k \in DOMAIN requests : \E i, j \in DOMAIN requests[k].messages :
        /\ k >= 2
        /\ i < j
        /\ requests[k].messages[i].tool_call_id # None
        /\ requests[k].messages[i] = requests[k].messages[j]

\* The handler invocations that returned, in the order they were made.
ReturnedInvocations == SelectSeq(invoked, LAMBDA v : ~v.raised)

\* The tool calls of the response to request k that the for loop has finished.
CompletedCalls(k) ==
    IF ~Answered(k) \/ ResponseMessage(k).tool_calls.key # "list" THEN <<>>
    ELSE IF k < Len(requests) THEN ResponseMessage(k).tool_calls.list
    ELSE IF pc = "while" THEN <<>>
    ELSE SubSeq(ResponseMessage(k).tool_calls.list, 1, tool_idx - 1)

\* The registered tool calls finished in turns 1..k, turn by turn, each turn's
\* in the order its assistant message lists them.
RECURSIVE CompletedRegisteredUpTo(_)
CompletedRegisteredUpTo(k) ==
    IF k = 0 THEN <<>>
    ELSE CompletedRegisteredUpTo(k - 1) \o SelectSeq(CompletedCalls(k), Registered)

\* C12: within one turn the handlers are invoked one at a time in the order the
\* tool calls appear in the assistant message, each returning before the next
\* is invoked (an invocation that did not return is the last one of the run);
\* the tool-result messages stand in the running sequence in that same order,
\* after the assistant message that issued them and before the next one.
C12_SequentialInOrder ==
    /\ [i \in DOMAIN ReturnedInvocations |-> ReturnedInvocations[i].tool_call]
           = CompletedRegisteredUpTo(Len(requests))
    /\ \A i \in DOMAIN invoked :
           invoked[i].raised => i = Len(invoked) /\ pc = "returned"
    /\ [i \in DOMAIN ToolMessages |-> ToolMessages[i].tool_call_id]
           = [i \in DOMAIN ReturnedInvocations |->
                  Some(ReturnedInvocations[i].tool_call.id)]
    /\ \A k \in DOMAIN requests :
           k >= 2 =>
               /\ requests[k].messages[Len(requests[k - 1].messages) + 1]
                      = ResponseMessage(k - 1)
               /\ [i \in DOMAIN TurnResults(k) |-> TurnResults(k)[i].tool_call_id]
                      = [i \in DOMAIN RegisteredCalls(ResponseMessage(k - 1)) |->
                             Some(RegisteredCalls(ResponseMessage(k - 1))[i].id)]

\* A turn with two calls of different ids was answered and its continuation
\* request sent.
C12_Witness ==
    \E k \in DOMAIN requests :
        /\ k >= 2
        /\ Len(TurnResults(k)) = 2
        /\ TurnResults(k)[1].tool_call_id # TurnResults(k)[2].tool_call_id

\* C13: every continuation request carries the model of the initial request and
\* the initial request's max_tokens, temperature and top_p, or the defaults
\* 1000, 0.3 and 0.95 for those the initial request omitted, together with the
\* full running message sequence as it stands when the request is sent.
C13_ParametersState ==
    \A k \in DOMAIN requests :
        /\ k = 1 => requests[k] = payload
        /\ k >= 2 =>
               /\ requests[k].model = payload.model
               /\ requests[k].max_tokens =
                      IF payload.max_tokens = None THEN Some(DefaultMaxTokens)
                      ELSE payload.max_tokens
               /\ requests[k].temperature =
                      IF payload.temperature = None THEN Some(DefaultTemperature)
                      ELSE payload.temperature
               /\ requests[k].top_p =
                      IF payload.top_p = None THEN Some(DefaultTopP)
                      ELSE payload.top_p

C13_MessagesStep ==
    (Len(requests) >= 1 /\ Len(requests') = Len(requests) + 1)
        => requests'[Len(requests')].messages = messages_so_far

C13_ContinuationParameters == []C13_ParametersState /\ [][C13_MessagesStep]_vars

\* A continuation request was sent for an initial request that omits
\* max_tokens and top_p and sets temperature to 0, after a handler ran.
C13_Witness ==
    /\ Len(requests) >= 2
    /\ payload.max_tokens = None
    /\ payload.temperature = Some(0)
    /\ requests[Len(requests)].max_tokens = Some(DefaultMaxTokens)
    /\ Len(requests[Len(requests)].messages) >= Len(payload.messages) + 2

\* Request k got no usable answer: a network fault, a non-2xx status, a body
\* that does not decode, or a body without a first choice.
RequestFailed(k) == k \in DOMAIN received /\ ~Answered(k)

\* C19: once any completion request of a run fails, the driver sends no
\* further request and invokes no tool handler before returning the structured
\* error: the failed request is the last one, the run has returned a map with
\* an error, and no step adds a request or an invocation afterwards. No
\* request is sent a second time: each request has one outcome and no two
\* requests of a run are equal.
C19_FailureState ==
    /\ Len(received) = Len(requests)
    /\ \A k \in DOMAIN requests :
           RequestFailed(k) =>
               /\ k = Len(requests)
               /\ pc = "returned"
               /\ result # None
               /\ result[1].error # None
    /\ \A j, k \in DOMAIN requests : j < k => requests[j] # requests[k]

C19_AfterFailureStep ==
    (\E k \in DOMAIN requests : RequestFailed(k))
        => requests' = requests /\ invoked' = invoked

C19_NoRetryAfterFailure == []C19_FailureState /\ [][C19_AfterFailureStep]_vars

\* A continuation request failed in transport after a handler had run.
C19_Witness ==
    /\ Len(requests) >= 2
    /\ Failed(Len(requests))
    /\ Len(invoked) >= 1
    /\ pc = "returned"

\* Every response received so far decoded to a message with a non-empty list
\* of tool calls, and no request failed.
EveryResponseCarriesToolCalls ==
    /\ requests # <<>>
    /\ \A k \in DOMAIN received :
           /\ Answered(k)
           /\ ResponseMessage(k).tool_calls.key = "list"
           /\ ResponseMessage(k).tool_calls.list # <<>>

\* C20: the driver enforces no upper bound on turns, and if every response
\* message carries tool calls and no request fails, the driver never returns.
C20_NeverReturnsWhileToolCalls ==
    EveryResponseCarriesToolCalls => pc # "returned"

\* The response carries no error marker and its first message yields a content
\* string (an absent choices, message or content key yields the empty string).
HasContentString(resp) ==
    /\ resp.error = None
    /\ resp.choices # None => resp.choices[1] # <<>>
    /\ (resp.choices # None /\ resp.choices[1][1].message # None)
           => resp.choices[1][1].message[1].content.key # "null"

\* C14: for a response without an error marker, parse_financial_data returns
\* the field map and no error exactly when the number of matched fields that
\* are not missing-value words is at least min_data_points (3); with fewer it
\* returns null and the raw message content as the summary.
C14_ThresholdDecides ==
    \A i \in DOMAIN parsed :
        HasContentString(parse_input[1]) =>
            LET content == MessageContent(parse_input[1]).text
                data == extract_data_from_content(content, extraction_patterns)
            IN  /\ min_data_points = 3
                /\ IF Cardinality(DOMAIN data) >= 3
                   THEN parsed[i].returned = <<Some(data), None>>
                   ELSE parsed[i].returned = <<None, Some(Text(content))>>

\* A response with exactly three fields was parsed into a field map.
C14_Witness ==
    /\ parsed # <<>>
    /\ HasContentString(parse_input[1])
    /\ parsed[1].returned[1] # None
    /\ Cardinality(DOMAIN parsed[1].returned[1][1]) = 3

\* Where the leftmost match of a label's pattern starts, and the span of its
\* capture.
MatchStart(label, content) ==
    CHOOSE i \in DOMAIN content :
        /\ MatchAt(label, content, i) # None
        /\ \A j \in DOMAIN content : MatchAt(label, content, j) # None => i <= j

CaptureSpan(label, content) == MatchAt(label, content, MatchStart(label, content))[1]

\* C15: for every content string and every configured label, the label is a
\* key of the extracted field map exactly when its pattern matches and the
\* trimmed capture is not "Not found", "N/A" or "Unknown"; the stored value is
\* the trimmed capture, and the capture runs from the label to the end of the
\* line the label is on.
C15_FieldsFromLabelLines ==
    \A i \in DOMAIN parsed :
        parsed[i].returned[1] # None =>
            LET data == parsed[i].returned[1][1]
                content == MessageContent(parse_input[1]).text
            IN  \A k \in DOMAIN extraction_patterns :
                    LET label == extraction_patterns[k]
                        capture == re_search(label, content)
                    IN  /\ k \in DOMAIN data <=>
                               (capture # None /\ Strip(capture[1]) \notin NotFoundValues)
                        /\ k \in DOMAIN data =>
                               /\ data[k] = Strip(capture[1])
                               /\ CaptureSpan(label, content)[1] > MatchStart(label, content)
                               /\ CaptureSpan(label, content)[2]
                                      = LineEnd(content, MatchStart(label, content))

\* C16: for every response that carries an error marker, whether or not it
\* also carries choices, parse_financial_data attempts no field extraction and
\* returns null fields with the text "API Error: " followed by the error,
\* followed by "\n\nResponse Body: " and the JSON-encoded body exactly when the
\* response has a response_body.
C16_ErrorMarkerFormatted ==
    \A i \in DOMAIN parsed :
        parse_input[1].error # None =>
            /\ ~parsed[i].extracted
            /\ parsed[i].returned[1] = None
            /\ parsed[i].returned[2] =
                   Some("API Error: " \o parse_input[1].error[1] \o
                        (IF parse_input[1].response_body = None THEN ""
                         ELSE "\n\nResponse Body: "
                                  \o json_dumps(parse_input[1].response_body[1])))

\* An error map that also carries choices with three fields and a decoded
\* response body was parsed.
C16_Witness ==
    /\ parsed # <<>>
    /\ parse_input[1].error # None
    /\ parse_input[1].choices # None
    /\ parse_input[1].response_body # None
    /\ parse_input[1].response_body[1].form = "json"
    /\ parsed[1].returned[2] =
           Some("API Error: model overloaded\n\nResponse Body: {\n  \"error\": \"internal\"\n}")

\* C18: parse_financial_data is idempotent on its input: two successive calls
\* on the same response return equal results, and a call changes neither the
\* response nor the processor's patterns and threshold.
C18_EqualResults == \A i, j \in DOMAIN parsed : parsed[i] = parsed[j]

C18_CallLeavesInputs ==
    /\ parse_input' = parse_input
    /\ extraction_patterns' = extraction_patterns
    /\ min_data_points' = min_data_points

C18_Idempotent == []C18_EqualResults /\ [][C18_CallLeavesInputs]_vars

\* The same response was parsed twice: a content into a field map, or an
\* error map that also carries choices into an error text.
C18_Witness ==
    /\ Len(parsed) = 2
    /\ \/ parsed[2].returned[1] # None
       \/ parse_input[1].error # None /\ parse_input[1].choices # None

\* The fetch and the clean-up of the call succeed: the URL has a scheme, the
\* network answers with a status below 400, and the page can be walked.
FetchSucceeds ==
    /\ fetch_input[1].url \notin NoSchemeUrls
    /\ fetch_input[1].net.get = "response"
    /\ fetch_input[1].net.status_code < 400
    /\ ~fetch_input[1].net.deep

\* C17: on every path fetch_url_content raises nothing to its caller and
\* returns a pair in which exactly one slot is non-null: (text, null) when the
\* fetch and the clean-up succeed, (null, an error text naming the URL and the
\* cause) on any fault.
C17_PairNeverRaises ==
    \A i \in DOMAIN fetched :
        LET url == fetch_input[1].url
            pair == fetched[i].returned
        IN  /\ ~fetched[i].raised
            /\ (pair[1] = None) # (pair[2] = None)
            /\ FetchSucceeds <=> pair[1] # None
            /\ ~FetchSucceeds =>
                   \E cause \in {"timed out", "connection refused",
                                 "404 Client Error: Not Found for url: " \o url,
                                 "Invalid URL '" \o url \o "': No scheme supplied",
                                 "maximum recursion depth exceeded"} :
                       pair[2] \in {Some("Error fetching URL " \o url \o ": " \o cause),
                                    Some("Unexpected error processing URL " \o url
                                             \o ": " \o cause)}

\* A page was fetched whose walk raised an exception that is not a request
\* fault, and the call returned an error pair.
C17_Witness ==
    /\ fetched # <<>>
    /\ fetch_input[1].net.deep
    /\ fetch_input[1].url \notin NoSchemeUrls
    /\ fetched[1].returned[1] = None
    /\ fetched[1].returned[2] # None

\* The response has a choices list that is empty, or a first message whose
\* content is null.
EmptyChoicesOrNullContent(resp) ==
    /\ resp.choices # None
    /\ \/ resp.choices[1] = <<>>
       \/ /\ resp.choices[1][1].message # None
          /\ resp.choices[1][1].message[1].content.key = "null"

\* C26: parse_financial_data never raises and always returns a pair with
\* exactly one non-null slot: a field map of at least min_data_points fields
\* with a null second slot, or a null first slot with a text; a response
\* without an error marker whose choices are empty or whose message content is
\* null yields (null, "Parsing Error: ...").
C26_TotalPair ==
    \A i \in DOMAIN parsed :
        LET pair == parsed[i].returned
        IN  /\ ~parsed[i].raised
            /\ (pair[1] = None) # (pair[2] = None)
            /\ pair[1] # None => Cardinality(DOMAIN pair[1][1]) >= min_data_points
            /\ (parse_input[1].error = None /\ EmptyChoicesOrNullContent(parse_input[1]))
                   => /\ pair[1] = None
                      /\ pair[2] \in
                             {Some("Parsing Error: list index out of range"),
                              Some("Parsing Error: object of type 'NoneType' has no len()")}

\* A response whose first message has a null content was parsed.
C26_Witness ==
    /\ parsed # <<>>
    /\ parse_input[1].error = None
    /\ parse_input[1].choices # None
    /\ parse_input[1].choices[1] # <<>>
    /\ parse_input[1].choices[1][1].message # None
    /\ parse_input[1].choices[1][1].message[1].content.key = "null"
    /\ parsed[1].returned[2] # None

\* C23: a request handed to the transport is never changed afterwards: the
\* initial request's message sequence after a run equals the one before the
\* run, and the message sequence of a continuation request already sent is not
\* altered by the messages the driver appends in later turns.
C23_SentRequestsUnchanged ==
    \A k \in DOMAIN requests : SentRequestNow(k) = requests[k]

\* C24: process_with_tools never propagates a fault to its caller: for every
\* sequence of transport outcomes, response shapes (missing or empty choices
\* included) and handler outcomes, the run is never left by an exception, and
\* when it returns the result is either a completion response whose
\* first-choice message has no tool_calls key or a map with an "error" key.
C24_ReturnsResponseOrError ==
    /\ pc \in {"initial", "while", "for", "continuation", "returned"}
    /\ pc = "returned" <=> result # None
    /\ pc = "returned" =>
           \/ result[1].error # None
           \/ /\ result[1].choices # None
              /\ result[1].choices[1] # <<>>
              /\ result[1].choices[1][1].message.tool_calls.key = "absent"

\* The run returned an error map for a 2xx response whose choices are empty,
\* after a handler had run.
C24_Witness ==
    /\ pc = "returned"
    /\ Len(invoked) >= 1
    /\ received[Len(received)] # None
    /\ received[Len(received)][1].status_code = 200
    /\ received[Len(received)][1].valid_json
    /\ received[Len(received)][1].json.choices = Some(<<>>)
    /\ result[1].error # None

\* The messages of the first choices, and of the other choices, of the
\* responses received.
FirstChoiceMessages == {ResponseMessage(k) : k \in {j \in DOMAIN received : Answered(j)}}

OtherChoiceMessages ==
    UNION {{received[k][1].json.choices[1][c].message :
                c \in 2 .. Len(received[k][1].json.choices[1])} :
           k \in {j \in DOMAIN received : Answered(j)}}

CallsOf(msgs) == UNION {{m.tool_calls.list[i] : i \in DOMAIN m.tool_calls.list} : m \in msgs}

\* C22: in every turn only the message of the first choice of a response is
\* used: tool calls carried by any other choice are never dispatched, no
\* message of another choice is ever appended to the running sequence, and the
\* first choice alone decides whether the loop continues.
C22_OnlyFirstChoice ==
    /\ \A i \in DOMAIN invoked :
           /\ invoked[i].tool_call \in CallsOf(FirstChoiceMessages)
           /\ invoked[i].tool_call \notin CallsOf(OtherChoiceMessages)
    /\ \A i \in DOMAIN messages_so_far :
           /\ messages_so_far[i] \notin OtherChoiceMessages
           /\ \/ i <= Len(payload.messages)
              \/ messages_so_far[i].tool_call_id # None
              \/ messages_so_far[i] \in FirstChoiceMessages
    /\ \A k \in DOMAIN received :
           Answered(k) =>
               IF ResponseMessage(k).tool_calls.key = "absent"
               THEN k = Len(requests) /\ (pc = "returned" => result = Some(received[k][1].json))
               ELSE ~(pc = "returned" /\ result[1].choices # None /\ k = Len(requests))

\* The run returned a response whose second choice carries a tool call, and
\* no handler was invoked.
C22_Witness ==
    /\ pc = "returned"
    /\ result[1].choices # None
    /\ Len(result[1].choices[1]) = 2
    /\ result[1].choices[1][2].message.tool_calls.key = "list"
    /\ invoked = <<>>

\* Some response received so far has a first message without a tool_calls
\* key; the first such response.
FinalResponseReceived ==
    \E k \in DOMAIN received :
        Answered(k) /\ ResponseMessage(k).tool_calls.key = "absent"

FirstFinalResponse ==
    CHOOSE k \in DOMAIN received :
        /\ Answered(k) /\ ResponseMessage(k).tool_calls.key = "absent"
        /\ \A j \in 1 .. k - 1 :
               ~(Answered(j) /\ ResponseMessage(j).tool_calls.key = "absent")

\* The driver has returned exactly the first response without tool_calls,
\* having sent one request per response received.
ReturnedFirstFinalResponse ==
    /\ FinalResponseReceived
    /\ pc = "returned"
    /\ result = Some(received[FirstFinalResponse][1].json)
    /\ Len(requests) = FirstFinalResponse
    /\ Len(received) = FirstFinalResponse

\* The driver has a statement to run unless it has returned (or the run has
\* reached the bound on requests).
C25_NotStuck ==
    (pc # "returned" /\ ~(pc = "continuation" /\ Len(requests) = MaxRequests))
        => ENABLED ProcessWithToolsNext

\* C25: if every request and every handler invocation returns without fault
\* and the model eventually produces a response whose message has no
\* tool_calls, the driver eventually returns, and what it returns is exactly
\* that first such response, after sending one request per response received.
C25_EventuallyReturnsFinalResponse ==
    /\ []C25_NotStuck
    /\ FinalResponseReceived ~> ReturnedFirstFinalResponse

\* The driver returned the third response, the first without tool_calls, after
\* two turns with tool calls.
C25_Witness ==
    /\ ReturnedFirstFinalResponse
    /\ FirstFinalResponse = 3
    /\ Len(invoked) >= 1

\* ------------------------------------------------------------------ C21
\* A 2xx response whose body decodes to an error payload without choices.
ErrorPayload(outcome) ==
    /\ outcome # None
    /\ outcome[1].status_code = 200
    /\ outcome[1].valid_json
    /\ outcome[1].json.choices = None
    /\ outcome[1].json.error # None

\* What the extractor returns for such a response, written out: no fields, and
\* the error of the missing "choices" key followed by the body as JSON.
ErrorPayloadText(outcome) ==
    "API Error: 'choices'\n\nResponse Body: {\n  \"error\": \""
        \o outcome[1].json.error[1] \o "\"\n}"

C21_State ==
    \A k \in DOMAIN received :
        ErrorPayload(received[k]) =>
            /\ k = Len(requests)
            /\ pc = "returned"
            /\ result[1].choices = None
            /\ result[1].response_body =
                   Some([form |-> "json", json |-> received[k][1].json, text |-> ""])
            /\ parsed # <<>> =>
                   /\ ~parsed[1].raised
                   /\ parsed[1].returned = <<None, Some(ErrorPayloadText(received[k]))>>

\* The step that receives the error payload invokes no handler, and no later
\* step invokes one or sends a request.
C21_Step ==
    /\ (Len(received') > Len(received) /\ ErrorPayload(received'[Len(received')]))
           => invoked' = invoked
    /\ (\E k \in DOMAIN received : ErrorPayload(received[k]))
           => requests' = requests /\ invoked' = invoked

\* C21: when a 2xx completion response carries an error payload and no
\* choices, the driver invokes no tool and sends no further request, and the
\* driver followed by the extractor yields null fields with an error text that
\* embeds that response's body.
C21_ErrorPayloadEndToEnd == []C21_State /\ [][C21_Step]_vars

\* The error payload answered a continuation request, after a handler had
\* run, and the extractor has been applied to what the driver returned.
C21_Witness ==
    /\ Len(received) >= 2
    /\ ErrorPayload(received[Len(received)])
    /\ invoked # <<>>
    /\ parsed # <<>>

====
